---- MODULE Spec2Model ----
(***************************************************************************)
(* A model of the serenity-oauth crate: the authorization URL builders     *)
(* (src/utils.rs), the scopes (src/scope.rs), the request models and their *)
(* form encoding (src/model.rs), the two transport bridges                 *)
(* (src/bridge/hyper.rs, src/bridge/reqwest.rs) and the unified error type *)
(* (src/error.rs).                                                         *)
(*                                                                         *)
(* Rust values are modelled as follows.                                    *)
(*   String / &str  a TLA+ string (ASCII); TLC evaluates Len, \o and       *)
(*                  SubSeq on strings.                                     *)
(*   &[u8]          a sequence of integers 0..255.                         *)
(*   u64            a triple <<a, b, c>> of base-10^9 limbs standing for   *)
(*                  a*10^18 + b*10^9 + c (TLC integers are 32 bits wide).  *)
(*   Option<T>      None or Some(v).                                       *)
(*   Result<T>      Ok(v) or Err(e).                                       *)
(***************************************************************************)
EXTENDS Integers, Sequences, FiniteSets, TLC

VARIABLES
    url_args,   \* the arguments of the pending URL builder call
    url,        \* Some(the String the URL builder returned), or None
    client,     \* which bridge the exchange runs on: "hyper" or "reqwest"
    op,         \* "exchange_code" or "exchange_refresh_token"
    request,    \* the request model handed to the exchange operation
    pc,         \* the position of the exchange call
    wire,       \* the requests handed to the transport so far (a sequence)
    response,   \* what the transport delivered: the body of the response
    result,     \* the value the exchange call returned, or NoValue
    origin,     \* history: the origin of the failure the call met, or "none"
    err,        \* the Error value being formatted with Display
    fmt_depth,  \* the number of nested Display::fmt frames on the stack
    fmt_out,    \* what has been written to the Formatter
    fmt_pc,     \* the position of the formatting call
    call,       \* the pending call of a function of the crate: its arguments
    ret         \* Some(the value that call returned), or None

url_vars == <<url_args, url>>
exchange_vars == <<client, op, request, pc, wire, response, result, origin>>
fmt_vars == <<err, fmt_depth, fmt_out, fmt_pc>>
call_vars == <<call, ret>>
vars == <<url_args, url, client, op, request, pc, wire, response, result,
          origin, err, fmt_depth, fmt_out, fmt_pc, call, ret>>

NoValue == [none |-> TRUE]
None == [some |-> FALSE]
Some(v) == [some |-> TRUE, value |-> v]
Ok(v) == [ok |-> TRUE, value |-> v]
Err(e) == [ok |-> FALSE, error |-> e]

(***************************************************************************)
(* Bounds of the model.                                                    *)
(***************************************************************************)
MaxScopes == 3
MaxUriLen == 2

(***************************************************************************)
(* Characters and bytes.                                                   *)
(***************************************************************************)
\* The printable ASCII characters in code order: 0x20 to 0x5F, and 0x61 to
\* 0x7E. The grave accent, 0x60, cannot be written in a string of this
\* language; every encode set used here replaces it, so it is never copied.
PrintableLow ==
    " !\"#$%&'(" \o ")*+,-./0123456789:;<=>?@ABCDEFGHIJKLMNOPQRSTUVWXYZ[\\]^_"

PrintableHigh == "abcdefghijklmnopqrstuvwxyz{|}~"

GraveAccent == 96

Chr(b) ==
    IF b < GraveAccent THEN SubSeq(PrintableLow, b - 31, b - 31)
    ELSE SubSeq(PrintableHigh, b - GraveAccent, b - GraveAccent)

\* The code of each printable character.
Codes == [c \in {Chr(b) : b \in (32..126) \ {GraveAccent}} |->
             CHOOSE b \in (32..126) \ {GraveAccent} : Chr(b) = c]

Ord(c) == Codes[c]

\* str::as_bytes, for ASCII text.
as_bytes(s) == [i \in 1..Len(s) |-> Ord(SubSeq(s, i, i))]

HexDigits == "0123456789ABCDEF"

HexDigit(n) == SubSeq(HexDigits, n + 1, n + 1)

\* The decimal digits of a natural number below 10^9.
RECURSIVE Decimal(_)
Decimal(n) ==
    IF n < 10 THEN HexDigit(n)
    ELSE Decimal(n \div 10) \o HexDigit(n % 10)

\* A limb below the leading one is written with all nine digits.
RECURSIVE ZeroPadded(_, _)
ZeroPadded(n, width) ==
    IF width = 0 THEN ""
    ELSE ZeroPadded(n \div 10, width - 1) \o HexDigit(n % 10)

\* Display for u64: the decimal digits, without sign or padding.
fmt_u64(n) ==
    IF n[1] > 0 THEN Decimal(n[1]) \o ZeroPadded(n[2], 9) \o ZeroPadded(n[3], 9)
    ELSE IF n[2] > 0 THEN Decimal(n[2]) \o ZeroPadded(n[3], 9)
    ELSE Decimal(n[3])

(***************************************************************************)
(* src/constants.rs                                                        *)
(***************************************************************************)
BASE_AUTHORIZE_URI == "https://discordapp.com/api/oauth2/authorize"
BASE_REVOKE_URI == "https://discordapp.com/api/oauth2/revoke"
BASE_TOKEN_URI == "https://discordapp.com/api/oauth2/token"

(***************************************************************************)
(* src/scope.rs                                                            *)
(***************************************************************************)
ScopeNames == {"Bot", "Connections", "Email", "Identify", "Guilds",
               "GuildsJoin", "GdmJoin", "MessagesRead", "Rpc", "RpcApi",
               "RpcNotificationsRead", "WebhookIncoming"}

Variant(name) == [tag |-> name]
Other(inner) == [tag |-> "Other", inner |-> inner]

\* The Debug form, the name of the variant, written in place of the
\* identifier.
Scope_fmt_VariantName(scope) ==
    IF scope.tag = "Other" THEN scope.inner ELSE scope.tag

\* impl Display for Scope
Scope_fmt(scope) ==
    CASE scope.tag = "Bot" -> "bot"
      [] scope.tag = "Connections" -> "connections"
      [] scope.tag = "Email" -> "email"
      [] scope.tag = "Identify" -> "identify"
      [] scope.tag = "Guilds" -> "guilds"
      [] scope.tag = "GuildsJoin" -> "guilds.join"
      [] scope.tag = "GdmJoin" -> "gdm.join"
      [] scope.tag = "MessagesRead" -> "messages.read"
      [] scope.tag = "Rpc" -> "rpc"
      [] scope.tag = "RpcApi" -> "rpc.api"
      [] scope.tag = "RpcNotificationsRead" -> "rpc.notifications.read"
      [] scope.tag = "WebhookIncoming" -> "webhook.incoming"
      [] scope.tag = "Other" -> scope.inner

(***************************************************************************)
(* percent_encoding, as src/utils.rs uses it.                              *)
(***************************************************************************)
\* SIMPLE_ENCODE_SET: the C0 controls and every byte above 0x7E.
SIMPLE_ENCODE_SET == {b \in 0..255 : b < 32 \/ b > 126}

QUERY_ENCODE_SET ==
    SIMPLE_ENCODE_SET \cup {Ord(" "), Ord("\""), Ord("#"), Ord("<"), Ord(">")}

DEFAULT_ENCODE_SET ==
    QUERY_ENCODE_SET \cup {GraveAccent, Ord("?"), Ord("{"), Ord("}")}

PATH_SEGMENT_ENCODE_SET == DEFAULT_ENCODE_SET \cup {Ord("%"), Ord("/")}

USERINFO_ENCODE_SET ==
    DEFAULT_ENCODE_SET \cup {Ord("/"), Ord(":"), Ord(";"), Ord("="), Ord("@"),
                             Ord("["), Ord("\\"), Ord("]"), Ord("^"), Ord("|")}

\* percent_encode_byte: "%" and the two upper-case hexadecimal digits.
percent_encode_byte(b) == "%" \o HexDigit(b \div 16) \o HexDigit(b % 16)

\* percent_encode, written out by Display: the bytes of the set are
\* replaced, the others are copied.
RECURSIVE percent_encode(_, _)
percent_encode(input, encode_set) ==
    IF input = <<>> THEN ""
    ELSE (IF Head(input) \in encode_set
          THEN percent_encode_byte(Head(input))
          ELSE Chr(Head(input)))
         \o percent_encode(Tail(input), encode_set)

(***************************************************************************)
(* src/utils.rs: authorization_code_grant_url                              *)
(***************************************************************************)
\* A separator after every scope, the last included.
MoreScopesFollowOffByOne(i, scope_count) == i < scope_count

\* `if i + 1 < scope_count`, with i counted from 0.
MoreScopesFollow(i, scope_count) == i + 1 < scope_count

\* `for (i, scope) in scopes.iter().enumerate()`: the body run from index i.
RECURSIVE WriteScopes(_, _, _)
WriteScopes(base, scopes, i) ==
    IF i >= Len(scopes) THEN base
    ELSE LET written == base \o Scope_fmt(scopes[i + 1])
             pushed == IF MoreScopesFollow(i, Len(scopes))
                       THEN written \o "%20"
                       ELSE written
         IN  WriteScopes(pushed, scopes, i + 1)

\* The segment written for None too, with an empty value.
WriteStateAlways(base, state) ==
    base \o "&state=" \o (IF state.some THEN state.value ELSE "")

\* `if let Some(state) = state { write!(base, "&state={}", state) }`
WriteState(base, state) ==
    IF state.some THEN base \o "&state=" \o state.value ELSE base

authorization_code_grant_url(client_id, scopes, state, redirect_uri) ==
    LET uri == percent_encode(redirect_uri, USERINFO_ENCODE_SET)
        base == BASE_AUTHORIZE_URI
                  \o "?response_type=code&client_id=" \o fmt_u64(client_id)
                  \o "&redirect_uri=" \o uri \o "&scope="
    IN  WriteState(WriteScopes(base, scopes, 0), state)

(***************************************************************************)
(* The exchange operations and the Display call at rest: the values these  *)
(* variables hold while another part of the crate is exercised.            *)
(***************************************************************************)
ExchangeAtRest ==
    /\ client = "hyper"
    /\ op = "exchange_code"
    /\ request = NoValue
    /\ pc = "idle"
    /\ wire = <<>>
    /\ response = NoValue
    /\ result = NoValue
    /\ origin = "none"

FmtAtRest ==
    /\ err = NoValue
    /\ fmt_depth = 0
    /\ fmt_out = ""
    /\ fmt_pc = "idle"

UrlAtRest ==
    /\ url_args = NoValue
    /\ url = None

CallAtRest ==
    /\ call = NoValue
    /\ ret = None

(***************************************************************************)
(* The URL builder: the inputs of the calls, and the call.                 *)
(***************************************************************************)
\* 249608697955745802, the client id of the documentation; 1000000005;
\* and u64::MAX, 18446744073709551615.
DocClientId == <<0, 249608697, 955745802>>

ClientIds == {DocClientId, <<0, 1, 5>>, <<18, 446744073, 709551615>>}

ScopeAlphabet ==
    {Variant("GuildsJoin"), Variant("Identify"), Other("x.y"),
     Other("a&state=b")}

ScopeLists == UNION {[1..n -> ScopeAlphabet] : n \in 0..MaxScopes}

DocState == "15773059ghq9183habn"

States == {None, Some(DocState), Some("s&state=t")}

DocRedirectUri == as_bytes("https://myapplication.website")

\* ':' and '/' (replaced), 'a', '%' and '&' (copied), and 0xC3, the first
\* byte of a two-byte UTF-8 character.
UriBytes == {Ord(":"), Ord("/"), Ord("a"), Ord("%"), Ord("&"), 195}

RedirectUris ==
    {DocRedirectUri, as_bytes("http://localhost:8000/callback")}
    \cup UNION {[1..n -> UriBytes] : n \in 0..MaxUriLen}

DocScopes == <<Variant("GuildsJoin"), Variant("Identify")>>

\* The calls explored: every scope list with the redirect URIs of the
\* documentation, every short redirect URI and client id with two scope
\* lists, and every redirect URI of one byte.
UrlInputs ==
    [client_id : {DocClientId}, scopes : ScopeLists, state : States,
     redirect_uri : {DocRedirectUri, as_bytes("http://localhost:8000/callback")}]
    \cup
    [client_id : ClientIds, scopes : {<<>>, DocScopes}, state : States,
     redirect_uri : RedirectUris]
    \cup
    [client_id : {DocClientId}, scopes : {DocScopes}, state : {None},
     redirect_uri : {<<b>> : b \in 0..255}]

InitUrl ==
    /\ url_args \in UrlInputs
    /\ url = None
    /\ ExchangeAtRest
    /\ FmtAtRest
    /\ CallAtRest

CallAuthorizationCodeGrantUrl ==
    /\ url = None
    /\ url' = Some(authorization_code_grant_url(
                     url_args.client_id, url_args.scopes, url_args.state,
                     url_args.redirect_uri))
    /\ UNCHANGED <<url_args, exchange_vars, fmt_vars, call_vars>>

NextUrl == CallAuthorizationCodeGrantUrl

SpecUrl == InitUrl /\ [][NextUrl]_vars

(***************************************************************************)
(* src/model.rs: the request models. A String field holds the UTF-8 bytes  *)
(* of the text.                                                            *)
(***************************************************************************)
\* The grant type taken from the code argument instead of the literal.
AccessTokenExchangeRequest_new_GrantFromCode(client_id, client_secret, code, redirect_uri) ==
    [type |-> "AccessTokenExchangeRequest",
     client_id |-> client_id,
     client_secret |-> client_secret,
     code |-> code,
     grant_type |-> code,
     redirect_uri |-> redirect_uri]

\* AccessTokenExchangeRequest::new
AccessTokenExchangeRequest_new(client_id, client_secret, code, redirect_uri) ==
    [type |-> "AccessTokenExchangeRequest",
     client_id |-> client_id,
     client_secret |-> client_secret,
     code |-> code,
     grant_type |-> as_bytes("authorization_code"),
     redirect_uri |-> redirect_uri]

\* RefreshTokenRequest::new
RefreshTokenRequest_new(client_id, client_secret, redirect_uri, refresh_token) ==
    [type |-> "RefreshTokenRequest",
     client_id |-> client_id,
     client_secret |-> client_secret,
     grant_type |-> as_bytes("refresh_token"),
     redirect_uri |-> redirect_uri,
     refresh_token |-> refresh_token]

\* #[derive(Serialize)]: the fields in the order of their declaration, each
\* <<name, "u64" or "str", value>>.
SerializeFields(req) ==
    IF req.type = "AccessTokenExchangeRequest"
    THEN << <<"client_id", "u64", req.client_id>>,
            <<"client_secret", "str", req.client_secret>>,
            <<"code", "str", req.code>>,
            <<"grant_type", "str", req.grant_type>>,
            <<"redirect_uri", "str", req.redirect_uri>> >>
    ELSE << <<"client_id", "u64", req.client_id>>,
            <<"client_secret", "str", req.client_secret>>,
            <<"grant_type", "str", req.grant_type>>,
            <<"redirect_uri", "str", req.redirect_uri>>,
            <<"refresh_token", "str", req.refresh_token>> >>

(***************************************************************************)
(* serde_urlencoded::to_string, as the bridges use it.                     *)
(***************************************************************************)
\* The same bytes and '+', which is then written as it is.
FormSafe_WithPlus ==
    {Ord("*"), Ord("-"), Ord("."), Ord("_"), Ord("+")}
    \cup (Ord("0")..Ord("9")) \cup (Ord("A")..Ord("Z")) \cup (Ord("a")..Ord("z"))

\* The bytes application/x-www-form-urlencoded copies: * - . _ 0-9 A-Z a-z
FormSafe ==
    {Ord("*"), Ord("-"), Ord("."), Ord("_")}
    \cup (Ord("0")..Ord("9")) \cup (Ord("A")..Ord("Z")) \cup (Ord("a")..Ord("z"))

\* form_urlencoded::byte_serialize
RECURSIVE byte_serialize(_)
byte_serialize(input) ==
    IF input = <<>> THEN <<>>
    ELSE (IF Head(input) \in FormSafe THEN <<Head(input)>>
          ELSE IF Head(input) = Ord(" ") THEN <<Ord("+")>>
          ELSE as_bytes(percent_encode_byte(Head(input))))
         \o byte_serialize(Tail(input))

\* The text of a field's value: an integer in decimal, a string as it is.
FieldText(field) ==
    IF field[2] = "u64" THEN as_bytes(fmt_u64(field[3])) ELSE field[3]

\* form_urlencoded::Serializer::append_pair for each field in turn.
RECURSIVE append_pairs(_, _)
append_pairs(out, fields) ==
    IF fields = <<>> THEN out
    ELSE LET field == Head(fields)
             sep == IF out = <<>> THEN <<>> ELSE <<Ord("&")>>
         IN  append_pairs(out \o sep \o byte_serialize(as_bytes(field[1]))
                              \o <<Ord("=")>> \o byte_serialize(FieldText(field)),
                          Tail(fields))

\* Serializing a struct of integers and strings cannot fail.
serde_urlencoded_to_string(req) == Ok(append_pairs(<<>>, SerializeFields(req)))

(***************************************************************************)
(* serde_urlencoded::from_bytes for AccessTokenExchangeRequest, which      *)
(* derives Deserialize: form_urlencoded::parse splits the body into pairs  *)
(* and decodes both halves of each; the derived visitor reads the fields   *)
(* by name.                                                                *)
(***************************************************************************)
\* The first position of byte b in input, or 0.
position(input, b) ==
    IF \E i \in 1..Len(input) : input[i] = b
    THEN CHOOSE i \in 1..Len(input) :
            input[i] = b /\ \A j \in 1..(i - 1) : input[j] # b
    ELSE 0

\* input.split(|&b| b == sep)
RECURSIVE split(_, _)
split(input, sep) ==
    LET at == position(input, sep)
    IN  IF at = 0 THEN <<input>>
        ELSE <<SubSeq(input, 1, at - 1)>>
             \o split(SubSeq(input, at + 1, Len(input)), sep)

\* replace_plus: every '+' stands for a space.
replace_plus(input) ==
    [i \in 1..Len(input) |-> IF input[i] = Ord("+") THEN Ord(" ") ELSE input[i]]

IsHex(b) ==
    b \in (Ord("0")..Ord("9")) \cup (Ord("A")..Ord("F")) \cup (Ord("a")..Ord("f"))

\* char::to_digit(16)
from_hex_digit(b) ==
    IF b \in Ord("0")..Ord("9") THEN b - Ord("0")
    ELSE IF b \in Ord("A")..Ord("F") THEN b - Ord("A") + 10
    ELSE b - Ord("a") + 10

\* percent_decode: '%' and two hexadecimal digits are one byte; a '%' that
\* is followed by anything else is copied.
RECURSIVE percent_decode(_)
percent_decode(input) ==
    IF input = <<>> THEN <<>>
    ELSE IF /\ input[1] = Ord("%")
            /\ Len(input) >= 3
            /\ IsHex(input[2])
            /\ IsHex(input[3])
    THEN <<from_hex_digit(input[2]) * 16 + from_hex_digit(input[3])>>
         \o percent_decode(SubSeq(input, 4, Len(input)))
    ELSE <<input[1]>> \o percent_decode(Tail(input))

\* The range the byte after lead byte b must lie in.
SecondByteRange(b) ==
    CASE b = 224 -> 160..191
      [] b = 237 -> 128..159
      [] b = 240 -> 144..191
      [] b = 244 -> 128..143
      [] OTHER -> 128..191

\* The number of bytes of the character lead byte b begins, 0 if b begins
\* none.
CharWidth(b) ==
    IF b < 128 THEN 1
    ELSE IF b \in 194..223 THEN 2
    ELSE IF b \in 224..239 THEN 3
    ELSE IF b \in 240..244 THEN 4
    ELSE 0

\* The number of bytes at the head of input that continue its lead byte as
\* UTF-8 requires, at most CharWidth - 1.
Continuations(input) ==
    LET width == CharWidth(input[1])
        fits(i) == /\ i <= Len(input)
                   /\ input[i] \in (IF i = 2 THEN SecondByteRange(input[1])
                                    ELSE 128..191)
    IN  IF width >= 2 /\ fits(2)
        THEN (IF width >= 3 /\ fits(3)
              THEN (IF width >= 4 /\ fits(4) THEN 3 ELSE 2)
              ELSE 1)
        ELSE 0

\* String::from_utf8_lossy: text that is UTF-8 is kept; each broken
\* sequence becomes U+FFFD.
RECURSIVE from_utf8_lossy(_)
from_utf8_lossy(input) ==
    IF input = <<>> THEN <<>>
    ELSE LET width == CharWidth(input[1])
             taken == 1 + (IF width = 0 THEN 0 ELSE Continuations(input))
             rest == SubSeq(input, taken + 1, Len(input))
         IN  IF width > 0 /\ taken = width
             THEN SubSeq(input, 1, taken) \o from_utf8_lossy(rest)
             ELSE <<239, 191, 189>> \o from_utf8_lossy(rest)

\* form_urlencoded's decode of one half of a pair.
decode(input) == from_utf8_lossy(percent_decode(replace_plus(input)))

\* form_urlencoded::parse: the pairs of the body; empty pieces are skipped,
\* a piece is split at its first '='.
parse(input) ==
    LET pieces == split(input, Ord("&"))
        kept == SelectSeq(pieces, LAMBDA piece : piece # <<>>)
    IN  [i \in 1..Len(kept) |->
            LET at == position(kept[i], Ord("="))
            IN  IF at = 0 THEN <<decode(kept[i]), <<>> >>
                ELSE <<decode(SubSeq(kept[i], 1, at - 1)),
                       decode(SubSeq(kept[i], at + 1, Len(kept[i])))>>]

\* The number a text of at most nine decimal digits stands for.
RECURSIVE digits_value(_)
digits_value(digits) ==
    IF digits = <<>> THEN 0
    ELSE 10 * digits_value(SubSeq(digits, 1, Len(digits) - 1))
         + (digits[Len(digits)] - Ord("0"))

RECURSIVE trim_zeros(_)
trim_zeros(digits) ==
    IF digits # <<>> /\ digits[1] = Ord("0") THEN trim_zeros(Tail(digits))
    ELSE digits

U64_MAX == <<18, 446744073, 709551615>>

\* a <= b for two u64.
u64_le(a, b) ==
    \/ a[1] < b[1]
    \/ a[1] = b[1] /\ a[2] < b[2]
    \/ a[1] = b[1] /\ a[2] = b[2] /\ a[3] <= b[3]

\* u64::from_str: an optional '+', then decimal digits, at least one, whose
\* value fits.
parse_u64(text) ==
    LET digits == IF text # <<>> /\ text[1] = Ord("+") THEN Tail(text) ELSE text
        short == trim_zeros(digits)
        n == Len(short)
        value == <<digits_value(SubSeq(short, 1, n - 18)),
                   digits_value(SubSeq(short, IF n > 18 THEN n - 17 ELSE 1, n - 9)),
                   digits_value(SubSeq(short, IF n > 9 THEN n - 8 ELSE 1, n))>>
    IN  IF digits = <<>> THEN Err("cannot parse integer from empty string")
        ELSE IF \E i \in 1..Len(digits) : digits[i] \notin Ord("0")..Ord("9")
        THEN Err("invalid digit found in string")
        ELSE IF n > 20 \/ ~u64_le(value, U64_MAX)
        THEN Err("number too large to fit in target type")
        ELSE Ok(value)

\* The value of a field read from the text of a pair.
ReadFormValue(field, text) ==
    IF field[2] = "u64" THEN parse_u64(text) ELSE Ok(text)

\* model.rs, AccessTokenExchangeRequest: the fields in the order of their
\* declaration.
ExchangeRequestFields ==
    << <<"client_id", "u64">>, <<"client_secret", "str">>, <<"code", "str">>,
       <<"grant_type", "str">>, <<"redirect_uri", "str">> >>

\* The derived visit_map over the pairs in turn: a pair with another name
\* is ignored, a name met twice is an error, and so is a value that does
\* not read as the type of its field; at the end every field must be there.
RECURSIVE visit_map(_, _)
visit_map(pairs, seen) ==
    IF pairs = <<>>
    THEN (IF \E i \in 1..Len(ExchangeRequestFields) :
                ExchangeRequestFields[i][1] \notin DOMAIN seen
          THEN Err("missing field")
          ELSE Ok([type |-> "AccessTokenExchangeRequest",
                   client_id |-> seen["client_id"],
                   client_secret |-> seen["client_secret"],
                   code |-> seen["code"],
                   grant_type |-> seen["grant_type"],
                   redirect_uri |-> seen["redirect_uri"]]))
    ELSE LET name == Head(pairs)[1]
             known == {i \in 1..Len(ExchangeRequestFields) :
                          as_bytes(ExchangeRequestFields[i][1]) = name}
         IN  IF known = {} THEN visit_map(Tail(pairs), seen)
             ELSE LET field == ExchangeRequestFields[CHOOSE i \in known : TRUE]
                      value == ReadFormValue(field, Head(pairs)[2])
                  IN  IF field[1] \in DOMAIN seen THEN Err("duplicate field")
                      ELSE IF ~value.ok THEN Err(value.error)
                      ELSE visit_map(Tail(pairs),
                                     [k \in DOMAIN seen \cup {field[1]} |->
                                         IF k = field[1] THEN value.value
                                         ELSE seen[k]])

\* serde_urlencoded::from_bytes::<AccessTokenExchangeRequest>
serde_urlencoded_from_bytes(input) ==
    visit_map(parse(input), [k \in {} |-> <<>>])

(***************************************************************************)
(* serde_json::to_string, as the bridges use it.                           *)
(***************************************************************************)
LowerHexDigits == "0123456789abcdef"

LowerHexDigit(n) == SubSeq(LowerHexDigits, n + 1, n + 1)

\* serde_json's escape of one byte of a string.
json_escape(b) ==
    CASE b = Ord("\"") -> as_bytes("\\\"")
      [] b = Ord("\\") -> as_bytes("\\\\")
      [] b = 8 -> as_bytes("\\b")
      [] b = 9 -> as_bytes("\\t")
      [] b = 10 -> as_bytes("\\n")
      [] b = 12 -> as_bytes("\\f")
      [] b = 13 -> as_bytes("\\r")
      [] b < 32 /\ b \notin {8, 9, 10, 12, 13} ->
             as_bytes("\\u00" \o LowerHexDigit(b \div 16) \o LowerHexDigit(b % 16))
      [] OTHER -> <<b>>

RECURSIVE json_escape_all(_)
json_escape_all(input) ==
    IF input = <<>> THEN <<>>
    ELSE json_escape(Head(input)) \o json_escape_all(Tail(input))

json_string(input) == <<Ord("\"")>> \o json_escape_all(input) \o <<Ord("\"")>>

json_value(field) ==
    IF field[2] = "u64" THEN as_bytes(fmt_u64(field[3])) ELSE json_string(field[3])

RECURSIVE json_members(_, _)
json_members(out, fields) ==
    IF fields = <<>> THEN out
    ELSE LET field == Head(fields)
             sep == IF out = <<>> THEN <<>> ELSE <<Ord(",")>>
         IN  json_members(out \o sep \o json_string(as_bytes(field[1]))
                              \o <<Ord(":")>> \o json_value(field),
                          Tail(fields))

\* Serializing a struct of integers and strings cannot fail.
serde_json_to_string(req) ==
    Ok(<<Ord("{")>> \o json_members(<<>>, SerializeFields(req)) \o <<Ord("}")>>)

(***************************************************************************)
(* src/error.rs: the Error enum and its From conversions. An error value   *)
(* is its variant and the message of the cause it wraps.                   *)
(***************************************************************************)
\* A hyper error wrapped as Error::Json.
From_HyperError_AsJson(cause) == [variant |-> "Json", cause |-> cause]

From_HyperError(cause) == [variant |-> "Hyper", cause |-> cause]
From_ReqwestError(cause) == [variant |-> "Reqwest", cause |-> cause]
From_JsonError(cause) == [variant |-> "Json", cause |-> cause]
From_UrlEncodeError(cause) == [variant |-> "UrlEncode", cause |-> cause]

(***************************************************************************)
(* The body of a response, as serde_json sees it:                          *)
(*   [kind |-> "malformed"]            text that is not JSON (empty,       *)
(*                                     truncated, an HTML page)            *)
(*   [kind |-> "scalar"]               a JSON null, string or number       *)
(*   [kind |-> "object", members |-> f] a JSON object, f from names to     *)
(*                                     JSON values                         *)
(*   [kind |-> "array", items |-> q]   a JSON array                        *)
(***************************************************************************)
JString(text) == [t |-> "string", text |-> text]
JNumber(n) == [t |-> "number", n |-> n]
JNull == [t |-> "null"]

\* model.rs, AccessTokenResponse: the fields in the order of declaration,
\* each <<name, the JSON type its Rust type is read from>>.
ResponseFields ==
    << <<"access_token", "string">>, <<"expires_in", "number">>,
       <<"refresh_token", "string">>, <<"scope", "string">>,
       <<"token_type", "string">> >>

\* A String is read from a JSON string, a u64 from a number that is a
\* non-negative integer.
ReadValue(value, type) ==
    IF value.t # type THEN Err("invalid type")
    ELSE IF type = "number"
    THEN (IF value.n >= 0 THEN Ok(value.n) ELSE Err("invalid value"))
    ELSE Ok(value.text)

\* #[serde(default)]: a missing field takes the default of its type.
missing_field_default(field) == Ok(IF field[2] = "number" THEN 0 ELSE "")

\* serde::de::Error::missing_field: no field of the struct has a default.
missing_field(field) == Err("missing field")

\* The derived visit_map: members with other names are ignored; every field
\* of the struct must be there and of its type.
ReadMember(members, field) ==
    IF field[1] \in DOMAIN members
    THEN ReadValue(members[field[1]], field[2])
    ELSE missing_field(field)

\* The derived visit_seq: the fields by position.
ReadItem(items, i) ==
    IF i <= Len(items)
    THEN ReadValue(items[i], ResponseFields[i][2])
    ELSE Err("invalid length")

\* serde_json::from_str / from_reader for AccessTokenResponse, once the text
\* of the body is at hand.
serde_json_from(body) ==
    CASE body.kind = "malformed" -> Err("expected value")
      [] body.kind = "scalar" -> Err("invalid type")
      [] body.kind = "object" ->
            LET read == [i \in 1..Len(ResponseFields) |->
                            ReadMember(body.members, ResponseFields[i])]
            IN  IF \E i \in 1..Len(read) : ~read[i].ok
                THEN Err(read[CHOOSE i \in 1..Len(read) :
                                 ~read[i].ok /\ \A j \in 1..(i - 1) : read[j].ok].error)
                ELSE Ok([access_token |-> read[1].value,
                         expires_in |-> read[2].value,
                         refresh_token |-> read[3].value,
                         scope |-> read[4].value,
                         token_type |-> read[5].value])
      [] body.kind = "array" ->
            LET read == [i \in 1..Len(ResponseFields) |-> ReadItem(body.items, i)]
            IN  IF \E i \in 1..Len(read) : ~read[i].ok
                THEN Err(read[CHOOSE i \in 1..Len(read) :
                                 ~read[i].ok /\ \A j \in 1..(i - 1) : read[j].ok].error)
                ELSE IF Len(body.items) > Len(ResponseFields)
                THEN Err("trailing characters")
                ELSE Ok([access_token |-> read[1].value,
                         expires_in |-> read[2].value,
                         refresh_token |-> read[3].value,
                         scope |-> read[4].value,
                         token_type |-> read[5].value])

(***************************************************************************)
(* src/bridge/hyper.rs and src/bridge/reqwest.rs: the exchange operations. *)
(***************************************************************************)
Clients == {"hyper", "reqwest"}
Ops == {"exchange_code", "exchange_refresh_token"}

\* serde_json::to_string for both operations.
SerializeRequestAlwaysJson(operation, req) ==
    LET body == serde_json_to_string(req)
    IN  IF body.ok THEN body ELSE Err(From_JsonError(body.error))

\* The first statement of each operation: the body, or the error that `?`
\* converts and returns.
SerializeRequest(operation, req) ==
    IF operation = "exchange_code"
    THEN LET body == serde_urlencoded_to_string(req)
         IN  IF body.ok THEN body ELSE Err(From_UrlEncodeError(body.error))
    ELSE LET body == serde_json_to_string(req)
         IN  IF body.ok THEN body ELSE Err(From_JsonError(body.error))

\* ContentType::form_url_encoded() in hyper, the literal in reqwest; the
\* refresh operation sets no content type.
ContentTypeOf(c, operation) ==
    IF operation = "exchange_code"
    THEN Some("application/x-www-form-urlencoded")
    ELSE None

\* The length of a String counted in characters, not in bytes: the bytes
\* 128..191 continue a character in UTF-8 and are not counted.
str_len_in_chars(body) ==
    Cardinality({i \in 1..Len(body) : body[i] \notin 128..191})

\* String::len: the length of the text in bytes.
str_len(body) == Len(body)

\* hyper's Body::BufBody(buf, len): len is announced as the Content-Length
\* and the sized writer sends no more than len bytes of buf.
BufBody(buf, len) == SubSeq(buf, 1, len)

\* The bytes of the body each client sends. hyper:
\* `.body(Body::BufBody(body.as_bytes(), body.len()))`; reqwest: `.body(body)`,
\* a String turned into a body of its bytes.
BodyBytes(c, body) ==
    IF c = "hyper" THEN BufBody(body, str_len(body)) ELSE body

\* self.post(BASE_TOKEN_URI) ... .body(body)
BuildPost(c, operation, body) ==
    [method |-> "POST",
     uri |-> BASE_TOKEN_URI,
     content_type |-> ContentTypeOf(c, operation),
     body |-> BodyBytes(c, body)]

\* The request is sent again after a failed send.
OnSendErrorRetry(c, cause) == [pc |-> "built", result |-> NoValue]

\* `.send()?`: the transport's error is converted and returned.
OnSendError(c, cause) ==
    [pc |-> "returned",
     result |-> Err(IF c = "hyper" THEN From_HyperError(cause)
                    ELSE From_ReqwestError(cause))]

\* A failure while the body is read. hyper: serde_json::from_reader meets the
\* io error of the stream and reports it as its own error, which map_err
\* converts. reqwest: `response.text().unwrap()` panics.
OnReadError(c, cause) ==
    IF c = "hyper"
    THEN [pc |-> "returned", result |-> Err(From_JsonError(cause))]
    ELSE [pc |-> "panicked", result |-> NoValue]

\* `serde_json::from_reader(response).map_err(From::from)` and
\* `serde_json::from_str(&*body).map_err(From::from)`
DecodeResponse(c, body) ==
    LET decoded == serde_json_from(body)
    IN  IF decoded.ok THEN decoded ELSE Err(From_JsonError(decoded.error))

\* A response whose status is 400 or above is returned as a failure of the
\* transport, as reqwest's error_for_status would.
ReadResponse_ErrorForStatus(c, resp) ==
    IF resp.status >= 400
    THEN Err(IF c = "hyper" THEN From_HyperError("status")
             ELSE From_ReqwestError("status"))
    ELSE DecodeResponse(c, resp.body)

\* What the operations do with the response send() returned: hyper hands it
\* to serde_json::from_reader, which reads its body; reqwest takes
\* response.text() and hands that to serde_json::from_str. Neither looks at
\* response.status.
ReadResponse(c, resp) == DecodeResponse(c, resp.body)

(***************************************************************************)
(* The calls explored.                                                     *)
(***************************************************************************)
RequestClientIds == {DocClientId, <<0, 1, 5>>}

DocSecret == as_bytes("dd99opUAgs7SQEtk2kdRrTMU5zagR2a4")

\* & = + % space " \ line feed, and U+00E9 in UTF-8.
OddSecret ==
    <<Ord("&"), Ord("="), Ord("+"), Ord("%"), Ord(" "), Ord("\""), Ord("\\"),
      10, 195, 169>>

Secrets == {DocSecret, OddSecret}

DocCode == as_bytes("user code here")

\* The code or refresh token of a call; the two grant types are among them.
Tokens == {DocCode, as_bytes("refresh_token"), as_bytes("authorization_code")}

Statuses == {200, 400}

ValidMembers ==
    [access_token |-> JString("tok"), expires_in |-> JNumber(604800),
     refresh_token |-> JString("ref"), scope |-> JString("identify"),
     token_type |-> JString("Bearer")]

ResponseNames == {ResponseFields[i][1] : i \in 1..Len(ResponseFields)}

\* Every object that gives each field of the struct a string, a number or
\* nothing.
ObjectBodies ==
    {[kind |-> "object", members |-> m] :
        m \in UNION {[names -> {JString("tok"), JNumber(604800)}] :
                        names \in SUBSET ResponseNames}}

OtherBodies ==
    {[kind |-> "malformed"],
     [kind |-> "scalar"],
     [kind |-> "object", members |-> ValidMembers],
     [kind |-> "object",
      members |-> [error |-> JString("invalid_grant"),
                   error_description |-> JString("Invalid code")]],
     [kind |-> "object",
      members |-> [access_token |-> JString("tok"), expires_in |-> JNumber(604800),
                   refresh_token |-> JString("ref"), scope |-> JString("identify"),
                   token_type |-> JString("Bearer"), webhook |-> JNull]],
     [kind |-> "object",
      members |-> [ValidMembers EXCEPT !.expires_in = JNumber(-1)]],
     [kind |-> "object",
      members |-> [ValidMembers EXCEPT !.refresh_token = JNull]],
     [kind |-> "array",
      items |-> <<JString("tok"), JNumber(604800), JString("ref"),
                  JString("identify"), JString("Bearer")>>],
     [kind |-> "array", items |-> <<JString("tok"), JNumber(604800)>>],
     [kind |-> "array", items |-> <<>>]}

Bodies == ObjectBodies \cup OtherBodies

InitExchange ==
    /\ client \in Clients
    /\ op \in Ops
    /\ request = NoValue
    /\ pc = "idle"
    /\ wire = <<>>
    /\ response = NoValue
    /\ result = NoValue
    /\ origin = "none"
    /\ UrlAtRest
    /\ FmtAtRest
    /\ CallAtRest

\* The caller builds the request with the constructor of its type.
NewRequest ==
    /\ pc = "idle"
    /\ \E id \in RequestClientIds, secret \in Secrets, token \in Tokens :
          request' = IF op = "exchange_code"
                     THEN AccessTokenExchangeRequest_new(id, secret, token,
                                                         DocRedirectUri)
                     ELSE RefreshTokenRequest_new(id, secret, DocRedirectUri,
                                                  token)
    /\ pc' = "built"
    /\ UNCHANGED <<client, op, wire, response, result, origin, url_vars, fmt_vars, call_vars>>

\* exchange_code or exchange_refresh_token is called: the request is
\* serialized and the POST is handed to the transport.
Call ==
    /\ pc = "built"
    /\ LET body == SerializeRequest(op, request)
       IN  IF body.ok
           THEN /\ wire' = Append(wire, BuildPost(client, op, body.value))
                /\ pc' = "sending"
                /\ UNCHANGED <<result, origin>>
           ELSE /\ result' = body
                /\ origin' = "serialize"
                /\ pc' = "returned"
                /\ UNCHANGED wire
    /\ UNCHANGED <<client, op, request, response, url_vars, fmt_vars, call_vars>>

\* send() fails: no connection, TLS, timeout.
SendFails ==
    /\ pc = "sending"
    /\ LET next == OnSendError(client, "connection refused")
       IN  pc' = next.pc /\ result' = next.result
    /\ origin' = "send"
    /\ UNCHANGED <<client, op, request, wire, response, url_vars, fmt_vars, call_vars>>

\* send() returns the response: its status and headers have arrived, the
\* body is still to be read.
ResponseArrives ==
    /\ pc = "sending"
    /\ \E status \in Statuses, body \in Bodies :
          response' = [status |-> status, body |-> body]
    /\ pc' = "reading"
    /\ UNCHANGED <<client, op, request, wire, result, origin, url_vars, fmt_vars, call_vars>>

\* The connection fails while the body is read.
ReadBodyFails ==
    /\ pc = "reading"
    /\ LET next == OnReadError(client, "connection reset")
       IN  pc' = next.pc /\ result' = next.result
    /\ origin' = "read_body"
    /\ UNCHANGED <<client, op, request, wire, response, url_vars, fmt_vars, call_vars>>

\* The body is read to its end and decoded.
ReadBody ==
    /\ pc = "reading"
    /\ result' = ReadResponse(client, response)
    /\ origin' = IF result'.ok THEN "none" ELSE "decode"
    /\ pc' = "returned"
    /\ UNCHANGED <<client, op, request, wire, response, url_vars, fmt_vars, call_vars>>

NextExchange ==
    \/ NewRequest
    \/ Call
    \/ SendFails
    \/ ResponseArrives
    \/ ReadBodyFails
    \/ ReadBody

SpecExchange == InitExchange /\ [][NextExchange]_vars

(***************************************************************************)
(* src/error.rs: impl Display for Error.                                   *)
(*                                                                         *)
(*     fn fmt(&self, f: &mut Formatter) -> FmtResult {                     *)
(*         f.write_str(self.to_string().as_str())                          *)
(*     }                                                                   *)
(*                                                                         *)
(* Error has no to_string of its own: self.to_string() is ToString's,      *)
(* which every Display type gets and which formats the value with          *)
(* Display::fmt. The argument of write_str is evaluated first, so each     *)
(* frame of fmt calls fmt again before it writes anything; no frame        *)
(* returns, and the thread runs out of stack.                              *)
(***************************************************************************)
\* The number of nested fmt frames the thread's stack holds.
StackFrames == 8

Causes == {"connection refused", "expected value", "missing field"}

Errors ==
    {From_HyperError(c) : c \in Causes} \cup {From_ReqwestError(c) : c \in Causes}
    \cup {From_JsonError(c) : c \in Causes}
    \cup {From_UrlEncodeError(c) : c \in Causes}

InitFmt ==
    /\ err \in Errors
    /\ fmt_depth = 0
    /\ fmt_out = ""
    /\ fmt_pc = "idle"
    /\ UrlAtRest
    /\ ExchangeAtRest
    /\ CallAtRest

\* format!("{}", err), err.to_string(), println!("{}", err): Display::fmt is
\* entered.
EnterFmt ==
    /\ fmt_pc = "idle"
    /\ fmt_pc' = "fmt"
    /\ fmt_depth' = 1
    /\ UNCHANGED <<err, fmt_out, url_vars, exchange_vars, call_vars>>

\* self.to_string() enters Display::fmt of the same value.
ToStringEntersFmt ==
    /\ fmt_pc = "fmt"
    /\ fmt_depth < StackFrames
    /\ fmt_depth' = fmt_depth + 1
    /\ UNCHANGED <<err, fmt_out, fmt_pc, url_vars, exchange_vars, call_vars>>

\* The next frame does not fit: the thread overflows its stack and the
\* process is aborted.
StackOverflow ==
    /\ fmt_pc = "fmt"
    /\ fmt_depth = StackFrames
    /\ fmt_pc' = "stack overflow"
    /\ UNCHANGED <<err, fmt_depth, fmt_out, url_vars, exchange_vars, call_vars>>

NextFmt == EnterFmt \/ ToStringEntersFmt \/ StackOverflow

SpecFmt == InitFmt /\ [][NextFmt]_vars

(***************************************************************************)
(* src/scope.rs: the string form of a Scope, scope.to_string() or          *)
(* format!("{}", scope): ToString formats the value with Display::fmt,     *)
(* which writes one string with write_str.                                 *)
(***************************************************************************)
MaxPayloadLen == 2

PayloadChars == {"b", "o", "t", ".", " ", "&", "B"}

\* The strings of at most n characters of PayloadChars.
RECURSIVE Payloads(_)
Payloads(n) ==
    IF n = 0 THEN {""}
    ELSE LET shorter == Payloads(n - 1)
         IN  shorter \cup {t \o c : t \in shorter, c \in PayloadChars}

\* The twelve named variants; Other with every short payload, with the
\* payload of the documentation and with payloads that are identifiers of
\* named variants.
Scopes ==
    {Variant(name) : name \in ScopeNames}
    \cup {Other(inner) : inner \in Payloads(MaxPayloadLen)}
    \cup {Other("x.y"), Other("bot"), Other("guilds.join"), Other("Bot"),
          Other("a&state=b")}

InitScope ==
    /\ call \in {[scope |-> scope] : scope \in Scopes}
    /\ ret = None
    /\ UrlAtRest
    /\ ExchangeAtRest
    /\ FmtAtRest

\* scope.to_string()
CallScopeToString ==
    /\ ret = None
    /\ ret' = Some(Scope_fmt(call.scope))
    /\ UNCHANGED <<call, url_vars, exchange_vars, fmt_vars>>

NextScope == CallScopeToString

SpecScope == InitScope /\ [][NextScope]_vars

(***************************************************************************)
(* src/utils.rs: bot_authorization_url. A Permissions value is its bits,   *)
(* a u64.                                                                  *)
(***************************************************************************)
\* Permissions::bits
Permissions_bits(permissions) == permissions.bits

\* The two numbers written in each other's place.
bot_authorization_url_NumbersSwapped(client_id, permissions) ==
    BASE_AUTHORIZE_URI \o "?client_id=" \o fmt_u64(Permissions_bits(permissions))
        \o "&scope=bot&permissions=" \o fmt_u64(client_id)

\* format!("{}?client_id={}&scope=bot&permissions={}", BASE_AUTHORIZE_URI,
\*         client_id, permissions.bits())
bot_authorization_url(client_id, permissions) ==
    BASE_AUTHORIZE_URI \o "?client_id=" \o fmt_u64(client_id)
        \o "&scope=bot&permissions=" \o fmt_u64(Permissions_bits(permissions))

MaxBits == 63

\* ADD_REACTIONS | SEND_MESSAGES, the permissions of the documentation.
DocPermissions == [bits |-> <<0, 0, 2112>>]

\* Every bitmask up to MaxBits; 2112; 999999999 and 1000000000, where the
\* digits pass from one limb to two; 2^53 - 1; 2^64 - 1.
PermissionsValues ==
    {[bits |-> <<0, 0, n>>] : n \in 0..MaxBits}
    \cup {DocPermissions, [bits |-> <<0, 0, 999999999>>],
          [bits |-> <<0, 1, 0>>], [bits |-> <<0, 9007199, 254740991>>],
          [bits |-> <<18, 446744073, 709551615>>]}

BotClientIds == ClientIds \cup {<<0, 0, 0>>, <<0, 0, 7>>, <<1, 0, 0>>}

InitBotUrl ==
    /\ call \in [client_id : BotClientIds, permissions : PermissionsValues]
    /\ ret = None
    /\ UrlAtRest
    /\ ExchangeAtRest
    /\ FmtAtRest

CallBotAuthorizationUrl ==
    /\ ret = None
    /\ ret' = Some(bot_authorization_url(call.client_id, call.permissions))
    /\ UNCHANGED <<call, url_vars, exchange_vars, fmt_vars>>

NextBotUrl == CallBotAuthorizationUrl

SpecBotUrl == InitBotUrl /\ [][NextBotUrl]_vars

(***************************************************************************)
(* The form-encoded body of exchange_code and its decoding: the request is *)
(* serialized with serde_urlencoded::to_string as both bridges do, and the *)
(* body is read back with serde_urlencoded::from_bytes.                    *)
(***************************************************************************)
MaxFieldLen == 2

\* & = + % space A 4
FormChars == {Ord("&"), Ord("="), Ord("+"), Ord("%"), Ord(" "), Ord("A"), Ord("4")}

\* The texts of at most n bytes of FormChars.
RECURSIVE TextsOver(_)
TextsOver(n) ==
    IF n = 0 THEN {<<>>}
    ELSE LET shorter == TextsOver(n - 1)
         IN  shorter \cup {Append(t, b) : t \in shorter, b \in FormChars}

\* Every text of one ASCII character; every short text of the characters
\* that have a meaning in a form; characters of two, three and four bytes
\* (U+00E9, U+20AC, U+1F600); texts that read as encoded text or as pairs.
FieldTexts ==
    {<<b>> : b \in 0..127}
    \cup TextsOver(MaxFieldLen)
    \cup {DocSecret, OddSecret, DocCode, DocRedirectUri,
          <<195, 169>>, <<226, 130, 172>>, <<240, 159, 152, 128>>,
          as_bytes("%41"), as_bytes("a%2Bb"), as_bytes("%zz"),
          as_bytes("x&client_id=1&code=y"), as_bytes("authorization_code")}

\* Requests built with AccessTokenExchangeRequest::new, one argument taken
\* from FieldTexts at a time, and requests whose public grant_type field
\* was then set.
FormRequests ==
    {AccessTokenExchangeRequest_new(id, text, DocCode, DocRedirectUri) :
        id \in RequestClientIds, text \in FieldTexts}
    \cup {AccessTokenExchangeRequest_new(DocClientId, DocSecret, text, DocRedirectUri) :
            text \in FieldTexts}
    \cup {AccessTokenExchangeRequest_new(id, DocSecret, DocCode, text) :
            id \in {U64_MAX, <<0, 0, 0>>}, text \in FieldTexts}
    \cup {[AccessTokenExchangeRequest_new(DocClientId, DocSecret, DocCode,
                                          DocRedirectUri)
              EXCEPT !.grant_type = text] : text \in FieldTexts}

InitForm ==
    /\ call \in {[request |-> req] : req \in FormRequests}
    /\ ret = None
    /\ UrlAtRest
    /\ ExchangeAtRest
    /\ FmtAtRest

\* serde_urlencoded::to_string(request)
SerializeForm ==
    /\ ret = None
    /\ ret' = Some([body |-> serde_urlencoded_to_string(call.request),
                    decoded |-> None])
    /\ UNCHANGED <<call, url_vars, exchange_vars, fmt_vars>>

\* serde_urlencoded::from_bytes(body)
DeserializeForm ==
    /\ ret.some
    /\ ret.value.body.ok
    /\ ~ret.value.decoded.some
    /\ ret' = Some([ret.value EXCEPT
                      !.decoded = Some(serde_urlencoded_from_bytes(
                                         ret.value.body.value))])
    /\ UNCHANGED <<call, url_vars, exchange_vars, fmt_vars>>

NextForm == SerializeForm \/ DeserializeForm

SpecForm == InitForm /\ [][NextForm]_vars

(***************************************************************************)
(* Text operators used to state the properties.                            *)
(***************************************************************************)
StartsWith(s, prefix) ==
    Len(prefix) <= Len(s) /\ SubSeq(s, 1, Len(prefix)) = prefix

EndsWith(s, suffix) ==
    Len(suffix) <= Len(s) /\ SubSeq(s, Len(s) - Len(suffix) + 1, Len(s)) = suffix

\* The positions at which needle occurs in s.
Positions(needle, s) ==
    {i \in 1..(Len(s) - Len(needle) + 1) : SubSeq(s, i, i + Len(needle) - 1) = needle}

Occurrences(needle, s) == Cardinality(Positions(needle, s))

\* The text after the first occurrence of needle in s.
After(needle, s) ==
    LET first == CHOOSE i \in Positions(needle, s) :
                     \A j \in Positions(needle, s) : i <= j
    IN  SubSeq(s, first + Len(needle), Len(s))

RECURSIVE SeparatedBy(_, _)
SeparatedBy(strs, sep) ==
    IF strs = <<>> THEN ""
    ELSE IF Len(strs) = 1 THEN strs[1]
    ELSE strs[1] \o sep \o SeparatedBy(Tail(strs), sep)

CanonicalStrings(scopes) == [i \in 1..Len(scopes) |-> Scope_fmt(scopes[i])]

ScopeText(scopes) == SeparatedBy(CanonicalStrings(scopes), "%20")

StateSegment(state) == IF state.some THEN "&state=" \o state.value ELSE ""

(***************************************************************************)
(* C1. The scope parameter of authorization_code_grant_url: the text after *)
(* `scope=` is the canonical strings of the scopes in caller order, one    *)
(* per element of the list (repeated scopes are repeated), with `%20`      *)
(* between consecutive elements and none before the first or after the     *)
(* last, followed only by the state segment when a state is given; an      *)
(* empty list yields `scope=` followed by nothing.                         *)
(***************************************************************************)
C1_ScopeText ==
    url.some =>
        /\ Occurrences("scope=", url.value) >= 1
        /\ After("scope=", url.value)
             = ScopeText(url_args.scopes) \o StateSegment(url_args.state)
        /\ (url_args.scopes = <<>> /\ ~url_args.state.some)
             => EndsWith(url.value, "&scope=")

\* A list with a repeated scope has been serialized.
C1_Witness ==
    /\ url.some
    /\ Len(url_args.scopes) = 2
    /\ url_args.scopes[1] = url_args.scopes[2]
    /\ url_args.scopes[1] = Variant("Identify")
    /\ EndsWith(url.value, "&scope=identify%20identify")

(***************************************************************************)
(* C2, as claimed. `&state=<state>` occurs exactly once, as the last       *)
(* segment of the URL, when state is Some(state); when state is None the   *)
(* URL contains no `&state=` at all.                                       *)
(***************************************************************************)
C2_AsClaimed ==
    url.some =>
        IF url_args.state.some
        THEN /\ EndsWith(url.value, "&state=" \o url_args.state.value)
             /\ Occurrences("&state=", url.value) = 1
        ELSE Occurrences("&state=", url.value) = 0

(***************************************************************************)
(* C2, amended. The function itself appends `&state=<state>` exactly once, *)
(* as the end of the URL, when state is Some(state), and appends nothing   *)
(* after the scope text when state is None (no empty-valued segment).      *)
(* Scope strings and the state value are written verbatim, so the URL      *)
(* contains `&state=` elsewhere exactly where one of them contains it.     *)
(***************************************************************************)
C2_StateSegment ==
    url.some =>
        LET scope_text == ScopeText(url_args.scopes)
            count == Occurrences("&state=", url.value)
        IN  IF url_args.state.some
            THEN /\ EndsWith(url.value, "&scope=" \o scope_text \o "&state="
                                          \o url_args.state.value)
                 /\ count = Occurrences("&state=", scope_text) + 1
                              + Occurrences("&state=", url_args.state.value)
            ELSE /\ EndsWith(url.value, "&scope=" \o scope_text)
                 /\ count = Occurrences("&state=", scope_text)

\* No state was given and none was appended; the one `&state=` of the URL
\* is the payload of an Other scope.
C2_Witness ==
    /\ url.some
    /\ ~url_args.state.some
    /\ url_args.scopes = <<Variant("Identify"), Other("a&state=b")>>
    /\ EndsWith(url.value, "&scope=identify%20a&state=b")

(***************************************************************************)
(* C3. redirect_uri is percent-encoded byte by byte: each byte that is     *)
(* unsafe in a URI userinfo context (':' and '/' among them) becomes `%`   *)
(* and two upper-case hexadecimal digits, each other byte is copied; and   *)
(* the call of the documentation returns the documented URL.               *)
(***************************************************************************)
\* The expected encoding of the sample bytes, written out.
ExpectedByte(b) ==
    CASE b = Ord(":") -> "%3A"
      [] b = Ord("/") -> "%2F"
      [] b = Ord("a") -> "a"
      [] b = Ord("%") -> "%"
      [] b = Ord("&") -> "&"
      [] b = 195 -> "%C3"

RECURSIVE ExpectedBytes(_)
ExpectedBytes(bytes) ==
    IF bytes = <<>> THEN ""
    ELSE ExpectedByte(Head(bytes)) \o ExpectedBytes(Tail(bytes))

\* The bytes that are unsafe in the userinfo of a URI: the controls and
\* everything above '~', and space " # < > ? ` { } / : ; = @ [ \ ] ^ |
UserinfoUnsafe ==
    (0..31) \cup (127..255) \cup {96}
    \cup {Ord(SubSeq(" \"#<>?{}/:;=@[\\]^|", i, i)) : i \in 1..18}

EncodedOrCopied(b) ==
    IF b \in UserinfoUnsafe
    THEN "%" \o HexDigit(b \div 16) \o HexDigit(b % 16)
    ELSE Chr(b)

RECURSIVE EncodedOrCopiedAll(_)
EncodedOrCopiedAll(bytes) ==
    IF bytes = <<>> THEN ""
    ELSE EncodedOrCopied(Head(bytes)) \o EncodedOrCopiedAll(Tail(bytes))

ExpectedUri(uri) ==
    IF uri = DocRedirectUri THEN "https%3A%2F%2Fmyapplication.website"
    ELSE IF uri = as_bytes("http://localhost:8000/callback")
    THEN "http%3A%2F%2Flocalhost%3A8000%2Fcallback"
    ELSE IF \A i \in 1..Len(uri) : uri[i] \in UriBytes
    THEN ExpectedBytes(uri)
    ELSE EncodedOrCopiedAll(uri)

ExpectedClientId(id) ==
    CASE id = DocClientId -> "249608697955745802"
      [] id = <<0, 1, 5>> -> "1000000005"
      [] id = <<18, 446744073, 709551615>> -> "18446744073709551615"

DocUrl ==
    "https://discordapp.com/api/oauth2/authorize?response_type=code"
    \o "&client_id=249608697955745802"
    \o "&redirect_uri=https%3A%2F%2Fmyapplication.website"
    \o "&scope=guilds.join%20identify&state=15773059ghq9183habn"

DocArgs ==
    [client_id |-> DocClientId,
     scopes |-> DocScopes,
     state |-> Some(DocState),
     redirect_uri |-> DocRedirectUri]

C3_RedirectUriEncoded ==
    url.some =>
        /\ StartsWith(url.value,
                      "https://discordapp.com/api/oauth2/authorize"
                      \o "?response_type=code&client_id="
                      \o ExpectedClientId(url_args.client_id)
                      \o "&redirect_uri=" \o ExpectedUri(url_args.redirect_uri)
                      \o "&scope=")
        /\ ExpectedUri(url_args.redirect_uri)
             = EncodedOrCopiedAll(url_args.redirect_uri)
        /\ url_args = DocArgs => url.value = DocUrl

\* The call of the documentation has returned.
C3_Witness == url.some /\ url_args = DocArgs /\ url.value = DocUrl

(***************************************************************************)
(* C4. Whatever the arguments, AccessTokenExchangeRequest::new returns a   *)
(* request whose grant_type is "authorization_code" and                    *)
(* RefreshTokenRequest::new one whose grant_type is "refresh_token".       *)
(***************************************************************************)
C4_GrantTypeFixed ==
    pc # "idle" =>
        /\ request.type = "AccessTokenExchangeRequest"
             => request.grant_type = as_bytes("authorization_code")
        /\ request.type = "RefreshTokenRequest"
             => request.grant_type = as_bytes("refresh_token")

\* A code exchange request was built with "refresh_token" as its code.
C4_Witness ==
    /\ pc = "built"
    /\ request.type = "AccessTokenExchangeRequest"
    /\ request.code = as_bytes("refresh_token")
    /\ request.client_secret = OddSecret

(***************************************************************************)
(* C5. Every request exchange_code hands to the transport is a POST to the *)
(* token endpoint with content type application/x-www-form-urlencoded and  *)
(* a form-url-encoded body; every request exchange_refresh_token hands to  *)
(* it is a POST to the same endpoint whose body is the request as a JSON   *)
(* object; neither body is in the other's encoding.                        *)
(***************************************************************************)
\* Only the bytes a form-url-encoded text is made of.
LooksFormEncoded(body) ==
    \A i \in 1..Len(body) :
        body[i] \in FormSafe \cup {Ord("&"), Ord("="), Ord("+"), Ord("%")}

LooksJsonObject(body) ==
    /\ Len(body) >= 2
    /\ body[1] = Ord("{")
    /\ body[Len(body)] = Ord("}")

DocExchangeRequest ==
    [type |-> "AccessTokenExchangeRequest", client_id |-> DocClientId,
     client_secret |-> DocSecret, code |-> DocCode,
     grant_type |-> as_bytes("authorization_code"),
     redirect_uri |-> DocRedirectUri]

DocExchangeBody ==
    as_bytes("client_id=249608697955745802"
             \o "&client_secret=dd99opUAgs7SQEtk2kdRrTMU5zagR2a4"
             \o "&code=user+code+here&grant_type=authorization_code"
             \o "&redirect_uri=https%3A%2F%2Fmyapplication.website")

OddExchangeBody ==
    as_bytes("client_id=249608697955745802"
             \o "&client_secret=%26%3D%2B%25+%22%5C%0A%C3%A9"
             \o "&code=user+code+here&grant_type=authorization_code"
             \o "&redirect_uri=https%3A%2F%2Fmyapplication.website")

DocRefreshRequest ==
    [type |-> "RefreshTokenRequest", client_id |-> DocClientId,
     client_secret |-> DocSecret, grant_type |-> as_bytes("refresh_token"),
     redirect_uri |-> DocRedirectUri, refresh_token |-> DocCode]

DocRefreshBody ==
    as_bytes("{\"client_id\":249608697955745802,"
             \o "\"client_secret\":\"dd99opUAgs7SQEtk2kdRrTMU5zagR2a4\","
             \o "\"grant_type\":\"refresh_token\","
             \o "\"redirect_uri\":\"https://myapplication.website\","
             \o "\"refresh_token\":\"user code here\"}")

OddRefreshBody ==
    as_bytes("{\"client_id\":249608697955745802,"
             \o "\"client_secret\":\"&=+% \\\"\\\\\\n")
    \o <<195, 169>>
    \o as_bytes("\",\"grant_type\":\"refresh_token\","
                \o "\"redirect_uri\":\"https://myapplication.website\","
                \o "\"refresh_token\":\"user code here\"}")

C5_BodyEncoding ==
    \A i \in 1..Len(wire) :
        LET post == wire[i]
        IN  /\ post.method = "POST"
            /\ post.uri = "https://discordapp.com/api/oauth2/token"
            /\ IF op = "exchange_code"
               THEN /\ post.content_type = Some("application/x-www-form-urlencoded")
                    /\ LooksFormEncoded(post.body)
                    /\ ~LooksJsonObject(post.body)
                    /\ request = DocExchangeRequest => post.body = DocExchangeBody
                    /\ request = [DocExchangeRequest EXCEPT !.client_secret = OddSecret]
                         => post.body = OddExchangeBody
               ELSE /\ LooksJsonObject(post.body)
                    /\ ~LooksFormEncoded(post.body)
                    /\ request = DocRefreshRequest => post.body = DocRefreshBody
                    /\ request = [DocRefreshRequest EXCEPT !.client_secret = OddSecret]
                         => post.body = OddRefreshBody

\* A refresh request has been handed to the transport as JSON.
C5_Witness ==
    /\ pc = "sending"
    /\ op = "exchange_refresh_token"
    /\ request = DocRefreshRequest
    /\ Len(wire) = 1
    /\ wire[1].body = DocRefreshBody

(***************************************************************************)
(* C6, as claimed. In both bindings and both operations every expected     *)
(* failure (a transport failure at any point of the exchange, the reading  *)
(* of the response body included, and a bad response body) is returned to  *)
(* the caller as an Err value: no such failure panics or is swallowed.     *)
(***************************************************************************)
C6_FailuresReturned ==
    /\ pc # "panicked"
    /\ (pc = "returned" /\ origin # "none") => ~result.ok

(***************************************************************************)
(* C7. Once the response body has been read: if it is not JSON that gives  *)
(* every field of AccessTokenResponse a value of its type, the operation   *)
(* returns Err(Error::Json); and whenever it returns Ok, every field of    *)
(* the value is the one the body gives (nothing defaulted, nothing left    *)
(* out).                                                                   *)
(***************************************************************************)
HasType(value, type) ==
    /\ value.t = type
    /\ type = "number" => value.n >= 0

\* serde reads a struct from a JSON object, by name, or from a JSON array,
\* by position.
MatchesSchema(body) ==
    \/ /\ body.kind = "object"
       /\ \A i \in 1..Len(ResponseFields) :
              /\ ResponseFields[i][1] \in DOMAIN body.members
              /\ HasType(body.members[ResponseFields[i][1]], ResponseFields[i][2])
    \/ /\ body.kind = "array"
       /\ Len(body.items) = Len(ResponseFields)
       /\ \A i \in 1..Len(ResponseFields) :
              HasType(body.items[i], ResponseFields[i][2])

\* The value the body gives to the i-th field of the struct.
Given(body, i) ==
    LET value == IF body.kind = "object"
                 THEN body.members[ResponseFields[i][1]]
                 ELSE body.items[i]
    IN  IF value.t = "number" THEN value.n ELSE value.text

C7_BadBodyIsJsonError ==
    (pc = "returned" /\ origin \in {"none", "decode"}) =>
        /\ ~MatchesSchema(response.body)
             => (~result.ok /\ result.error.variant = "Json")
        /\ result.ok =>
             /\ MatchesSchema(response.body)
             /\ result.value =
                  [access_token |-> Given(response.body, 1),
                   expires_in |-> Given(response.body, 2),
                   refresh_token |-> Given(response.body, 3),
                   scope |-> Given(response.body, 4),
                   token_type |-> Given(response.body, 5)]

\* The provider's error payload was decoded by the reqwest binding.
C7_Witness ==
    /\ pc = "returned"
    /\ client = "reqwest"
    /\ origin = "decode"
    /\ response.body.kind = "object"
    /\ DOMAIN response.body.members = {"error", "error_description"}
    /\ result = Err(From_JsonError("missing field"))

(***************************************************************************)
(* C8, as claimed. Formatting an Error with Display terminates and writes  *)
(* exactly the message of the wrapped cause, for every variant.            *)
(***************************************************************************)
C8_DisplayWritesCause ==
    /\ fmt_pc # "stack overflow"
    /\ fmt_pc = "done" => fmt_out = err.cause

(***************************************************************************)
(* C9, as claimed. The variant of a returned Error identifies the origin   *)
(* of the failure: transport, request serialization and response           *)
(* deserialization are each reported under variants the other two never    *)
(* produce. Deserialization failures are Error::Json, so no failure of     *)
(* another origin may be.                                                  *)
(***************************************************************************)
OriginClass(o) ==
    CASE o \in {"send", "read_body"} -> "transport"
      [] o = "serialize" -> "serialization"
      [] o = "decode" -> "deserialization"

C9_VariantIdentifiesOrigin ==
    (pc = "returned" /\ ~result.ok) =>
        LET v == result.error.variant
        IN  /\ v = "Json" => OriginClass(origin) = "deserialization"
            /\ v \in {"Hyper", "Reqwest"} => OriginClass(origin) = "transport"
            /\ v = "UrlEncode" => OriginClass(origin) = "serialization"

(***************************************************************************)
(* C9, amended. The variant of a returned Error names the library that     *)
(* reported the failure, in both operations. A failure of send() is        *)
(* returned as Hyper by the hyper binding and as Reqwest by the reqwest     *)
(* binding, and nothing else is returned under those variants; a response  *)
(* deserialization failure is returned as Json; Json is also what the      *)
(* hyper binding returns for a transport failure while the response body   *)
(* is read, and no other failure is returned as Json.                      *)
(***************************************************************************)
C9_VariantNamesLibrary ==
    (pc = "returned" /\ ~result.ok) =>
        LET v == result.error.variant
        IN  /\ origin = "send" <=> v = (IF client = "hyper" THEN "Hyper" ELSE "Reqwest")
            /\ origin = "decode" => v = "Json"
            /\ v = "Json" => \/ origin = "decode"
                             \/ client = "hyper" /\ origin = "read_body"
            /\ v \in {"Hyper", "Reqwest", "Json"}

\* The hyper binding has returned a transport failure as Error::Json.
C9_Witness ==
    /\ pc = "returned"
    /\ client = "hyper"
    /\ origin = "read_body"
    /\ result = Err(From_JsonError("connection reset"))

SentBy(c) == BuildPost(c, op, SerializeRequest(op, request).value)

\* Stated where the request has just been handed to the transport; the
\* requests handed over do not change afterwards.
C11_SameBodyBothBindings ==
    pc = "sending" =>
        /\ Len(wire) = 1
        /\ SerializeRequest(op, request).ok
        /\ LET hyper == SentBy("hyper")
               reqwest == SentBy("reqwest")
           IN  /\ hyper.body = reqwest.body
               /\ hyper.uri = reqwest.uri
               /\ wire[1].body = hyper.body
               /\ wire[1].uri = hyper.uri

\* The hyper client has sent a refresh request whose secret holds a
\* character of two bytes, and the body is the one written out above.
C11_Witness ==
    /\ pc = "sending"
    /\ client = "hyper"
    /\ op = "exchange_refresh_token"
    /\ request = [DocRefreshRequest EXCEPT !.client_secret = OddSecret]
    /\ Len(wire) = 1
    /\ wire[1].body = OddRefreshBody
    /\ SentBy("reqwest").body = OddRefreshBody

(***************************************************************************)
(* C12. The string form of a Scope is a fixed mapping: each of the twelve  *)
(* named variants renders as its provider identifier, distinct variants    *)
(* as distinct strings, and Other(s) renders as exactly s, for every s.    *)
(***************************************************************************)
\* The provider's identifier of each named variant, written out.
ProviderIdentifier ==
    [Bot |-> "bot", Connections |-> "connections", Email |-> "email",
     Identify |-> "identify", Guilds |-> "guilds", GuildsJoin |-> "guilds.join",
     GdmJoin |-> "gdm.join", MessagesRead |-> "messages.read", Rpc |-> "rpc",
     RpcApi |-> "rpc.api", RpcNotificationsRead |-> "rpc.notifications.read",
     WebhookIncoming |-> "webhook.incoming"]

C12_ScopeStrings ==
    /\ ret.some =>
          /\ call.scope.tag \in ScopeNames
                => ret.value = ProviderIdentifier[call.scope.tag]
          /\ call.scope.tag = "Other" => ret.value = call.scope.inner
    /\ DOMAIN ProviderIdentifier = ScopeNames
    /\ Cardinality(ScopeNames) = 12
    /\ \A a, b \in ScopeNames :
          a # b => Scope_fmt(Variant(a)) # Scope_fmt(Variant(b))

\* WebhookIncoming has been rendered as "webhook.incoming".
C12_Witness ==
    /\ ret.some
    /\ call.scope = Variant("WebhookIncoming")
    /\ ret.value = "webhook.incoming"

(***************************************************************************)
(* C13. For every client id and permission bitmask, bot_authorization_url  *)
(* returns exactly                                                         *)
(*   https://discordapp.com/api/oauth2/authorize?client_id=<client_id>     *)
(*       &scope=bot&permissions=<bits>                                     *)
(* with both numbers in decimal; for client id 249608697955745802 and bits *)
(* 2112 it returns the URL of the documentation.                           *)
(***************************************************************************)
Digits == "0123456789"

IsDigit(c) == \E d \in 1..10 : SubSeq(Digits, d, d) = c

DigitValue(c) == (CHOOSE d \in 1..10 : SubSeq(Digits, d, d) = c) - 1

\* The number a text of at most nine decimal digits stands for.
RECURSIVE NatOf(_)
NatOf(text) ==
    IF text = "" THEN 0
    ELSE 10 * NatOf(SubSeq(text, 1, Len(text) - 1))
         + DigitValue(SubSeq(text, Len(text), Len(text)))

\* Decimal digits only, at least one, and no leading zero.
CanonicalDecimal(text) ==
    /\ Len(text) >= 1
    /\ \A i \in 1..Len(text) : IsDigit(SubSeq(text, i, i))
    /\ Len(text) > 1 => SubSeq(text, 1, 1) # "0"

\* The decimal form of the larger numbers, written out.
WrittenOut ==
    << <<DocClientId, "249608697955745802">>,
       <<(<<0, 1, 5>>), "1000000005">>,
       <<(<<18, 446744073, 709551615>>), "18446744073709551615">>,
       <<(<<1, 0, 0>>), "1000000000000000000">>,
       <<(<<0, 1, 0>>), "1000000000">>,
       <<(<<0, 9007199, 254740991>>), "9007199254740991">> >>

\* text is the number n in decimal.
IsDecimalOf(text, n) ==
    IF \E i \in 1..Len(WrittenOut) : WrittenOut[i][1] = n
    THEN \E i \in 1..Len(WrittenOut) :
            WrittenOut[i][1] = n /\ WrittenOut[i][2] = text
    ELSE /\ n[1] = 0 /\ n[2] = 0
         /\ CanonicalDecimal(text)
         /\ Len(text) <= 9
         /\ NatOf(text) = n[3]

DocBotUrl ==
    "https://discordapp.com/api/oauth2/authorize"
        \o "?client_id=249608697955745802&scope=bot&permissions=2112"

C13_BotAuthorizationUrl ==
    ret.some =>
        LET text == ret.value
            head == "https://discordapp.com/api/oauth2/authorize?client_id="
            middle == "&scope=bot&permissions="
        IN  /\ StartsWith(text, head)
            /\ Occurrences(middle, text) = 1
            /\ LET rest == SubSeq(text, Len(head) + 1, Len(text))
                   at == CHOOSE i \in Positions(middle, rest) : TRUE
               IN  /\ IsDecimalOf(SubSeq(rest, 1, at - 1), call.client_id)
                   /\ IsDecimalOf(SubSeq(rest, at + Len(middle), Len(rest)),
                                  call.permissions.bits)
            /\ (call.client_id = DocClientId /\ call.permissions = DocPermissions)
                  => text = DocBotUrl

\* The call of the documentation has returned the URL of the documentation.
C13_Witness ==
    /\ ret.some
    /\ call.client_id = DocClientId
    /\ call.permissions = DocPermissions
    /\ ret.value = DocBotUrl

(***************************************************************************)
(* C14. Serializing any AccessTokenExchangeRequest to the form-encoded     *)
(* body of exchange_code and decoding that body field by field gives back  *)
(* the same client_id, client_secret, code, grant_type and redirect_uri,   *)
(* whatever characters the string fields hold: '&', '=', '+', '%', space   *)
(* and characters outside ASCII included.                                  *)
(***************************************************************************)
C14_FormRoundTrip ==
    ret.some =>
        /\ ret.value.body.ok
        /\ LooksFormEncoded(ret.value.body.value)
        /\ ret.value.decoded.some =>
              LET back == ret.value.decoded.value
              IN  /\ back.ok
                  /\ back.value.client_id = call.request.client_id
                  /\ back.value.client_secret = call.request.client_secret
                  /\ back.value.code = call.request.code
                  /\ back.value.grant_type = call.request.grant_type
                  /\ back.value.redirect_uri = call.request.redirect_uri

\* The request whose secret is & = + % space " \ line feed and U+00E9 has
\* been serialized to the body written out above and read back.
C14_Witness ==
    /\ ret.some
    /\ ret.value.decoded.some
    /\ call.request = [DocExchangeRequest EXCEPT !.client_secret = OddSecret]
    /\ ret.value.body.value = OddExchangeBody
    /\ ret.value.decoded.value.ok
    /\ ret.value.decoded.value.value.client_secret = OddSecret

(***************************************************************************)
(* C15. Once the transport has returned a response and its body has been   *)
(* read, the outcome of exchange_code and exchange_refresh_token is        *)
(* decided by the body alone and never by the HTTP status: a response with *)
(* a non-success status whose body matches the AccessTokenResponse schema  *)
(* returns Ok, with either status a body that does not match returns       *)
(* Error::Json, and the provider's error payload is reported as            *)
(* Error::Json, never as a failure of the transport.                       *)
(***************************************************************************)
ProviderErrorPayload ==
    [kind |-> "object",
     members |-> [error |-> JString("invalid_grant"),
                  error_description |-> JString("Invalid code")]]

C15_StatusIgnored ==
    (pc = "returned" /\ origin \in {"none", "decode"}) =>
        /\ response.status \in {200, 400}
        /\ result.ok <=> MatchesSchema(response.body)
        /\ result.ok =>
              result.value = [access_token |-> Given(response.body, 1),
                              expires_in |-> Given(response.body, 2),
                              refresh_token |-> Given(response.body, 3),
                              scope |-> Given(response.body, 4),
                              token_type |-> Given(response.body, 5)]
        /\ ~result.ok =>
              /\ result.error.variant = "Json"
              /\ result.error.variant \notin {"Hyper", "Reqwest"}
              /\ origin = "decode"
        /\ response.body = ProviderErrorPayload =>
              result = Err([variant |-> "Json", cause |-> "missing field"])
        /\ (response.status = 400 /\ response.body.kind = "object"
               /\ response.body.members = ValidMembers) =>
              result = Ok([access_token |-> "tok", expires_in |-> 604800,
                           refresh_token |-> "ref", scope |-> "identify",
                           token_type |-> "Bearer"])

\* A response with status 400 and a body that matches the schema has been
\* returned as Ok.
C15_Witness ==
    /\ pc = "returned"
    /\ origin = "none"
    /\ response.status = 400
    /\ MatchesSchema(response.body)
    /\ result.ok
    /\ result.value.access_token = "tok"

====
